---- MODULE Spec2Model ----
(***************************************************************************)
(* Model of d2's model validation (src/src/model/ModelValidation.js) and   *)
(* of the analytics query builder exercised by                             *)
(* src/src/analytics/__tests__/AnalyticsAggregate.spec.js.                 *)
(*                                                                         *)
(* JavaScript values are records [t, n, s]: t is the kind of value, n the  *)
(* numeric payload and s the character payload.  A number is stored as     *)
(* twice its value, so that 2.5 and 3.5 are representable (n = 5, n = 7);  *)
(* an array is stored by its length n, each element being the number 1.    *)
(***************************************************************************)
EXTENDS Integers, Sequences, FiniteSets, TLC

VARIABLES
    logger,                   \* module-level `let logger`
    typeSpecificValidations,  \* module-level registry of per-type validators
    modelValidation,          \* static ModelValidation.modelValidation (0: unset)
    instances,                \* instances built so far: id -> how it was built
    args,                     \* arguments of a pending validate call
    ret,                      \* the most recent call and what it returned
    logged,                   \* diagnostics the most recent call emitted
    posted,                   \* HTTP requests the most recent call issued
    probe,                    \* an earlier validate call kept for comparison
    dimensions,               \* query builder: this.dimensions
    filters,                  \* query builder: this.filters
    query,                    \* query builder: this.query
    passed                    \* the items handed to the add-operations so far

vars == <<logger, typeSpecificValidations, modelValidation, instances, args,
          ret, logged, posted, probe, dimensions, filters, query, passed>>

moduleVars == <<logger, typeSpecificValidations, modelValidation, instances>>
builderVars == <<dimensions, filters, query, passed>>

\* Longest string and longest array among the values validate is applied to.
MaxLen == 2

\* Most ModelValidation instances built in one run.
MaxInstances == 2

\* Most items held by the builder's dimensions, and by its filters.
MaxItems == 3

-----------------------------------------------------------------------------
(* JavaScript values *)

Undefined == [t |-> "undefined", n |-> 0, s |-> <<>>]
Null == [t |-> "null", n |-> 0, s |-> <<>>]
NaN == [t |-> "NaN", n |-> 0, s |-> <<>>]
Obj == [t |-> "object", n |-> 0, s |-> <<>>]
Bool(b) == [t |-> "boolean", n |-> IF b THEN 1 ELSE 0, s |-> <<>>]
Num(twice) == [t |-> "number", n |-> twice, s |-> <<>>]
Str(chars) == [t |-> "string", n |-> 0, s |-> chars]
Arr(len) == [t |-> "array", n |-> len, s |-> <<>>]

DigitChars == <<"0", "1", "2", "3", "4", "5", "6", "7", "8", "9">>
Digits == {DigitChars[i] : i \in DOMAIN DigitChars}
DigitValue(c) == (CHOOSE i \in DOMAIN DigitChars : DigitChars[i] = c) - 1

Chars == {"1", "+", " ", "a"}
SeqsUpTo(S, k) == UNION {[1..m -> S] : m \in 0..k}

Strings == {Str(x) : x \in SeqsUpTo(Chars, MaxLen)}
Arrays == {Arr(k) : k \in 0..MaxLen}
\* -1, 0, 1, 2, 2.5, 3, 3.5, 7, 12
Numbers == {Num(h) : h \in {-2, 0, 2, 4, 5, 6, 7, 14, 24}}
Values == Strings \cup Arrays \cup Numbers
          \cup {Undefined, Null, NaN, Obj, Bool(TRUE), Bool(FALSE)}

\* !value
Falsy(v) ==
    \/ v.t \in {"undefined", "null", "NaN"}
    \/ v.t \in {"boolean", "number"} /\ v.n = 0
    \/ v.t = "string" /\ v.s = <<>>

\* value.length
Length(v) == IF v.t = "string" THEN Len(v.s) ELSE v.n

RECURSIVE NatToStr(_)
NatToStr(k) ==
    IF k < 10 THEN <<DigitChars[k + 1]>>
    ELSE NatToStr(k \div 10) \o <<DigitChars[(k % 10) + 1]>>

\* String(number), the number given as twice its value
NumToStr(h) ==
    LET a == IF h < 0 THEN -h ELSE h
    IN  (IF h < 0 THEN <<"-">> ELSE <<>>)
        \o NatToStr(a \div 2)
        \o (IF a % 2 = 1 THEN <<".", "5">> ELSE <<>>)

RECURSIVE JoinOnes(_)
JoinOnes(len) ==
    IF len = 0 THEN <<>>
    ELSE IF len = 1 THEN <<"1">>
    ELSE JoinOnes(len - 1) \o <<",", "1">>

\* String(value), the conversion RegExp.prototype.test applies to its argument
ToStr(v) ==
    CASE v.t = "string" -> v.s
      [] v.t = "number" -> NumToStr(v.n)
      [] v.t = "array" -> JoinOnes(v.n)
      [] v.t = "NaN" -> <<"N", "a", "N">>
      [] v.t = "null" -> <<"n", "u", "l", "l">>
      [] v.t = "undefined" -> <<"u", "n", "d", "e", "f", "i", "n", "e", "d">>
      [] v.t = "boolean" ->
            IF v.n = 1 THEN <<"t", "r", "u", "e">> ELSE <<"f", "a", "l", "s", "e">>
      [] OTHER -> <<"[", "o", "b", "j", "e", "c", "t", " ", "O", "b", "j", "e", "c", "t", "]">>

RECURSIVE TrimLeft(_)
TrimLeft(x) == IF x # <<>> /\ Head(x) = " " THEN TrimLeft(Tail(x)) ELSE x

RECURSIVE TrimRight(_)
TrimRight(x) ==
    IF x # <<>> /\ x[Len(x)] = " " THEN TrimRight(SubSeq(x, 1, Len(x) - 1)) ELSE x

\* The digits of a numeric string: blanks around it and one leading + dropped.
Numeral(x) ==
    LET y == TrimRight(TrimLeft(x))
    IN  IF y # <<>> /\ Head(y) = "+" THEN Tail(y) ELSE y

RECURSIVE DigitsToNat(_)
DigitsToNat(x) ==
    IF x = <<>> THEN 0
    ELSE 10 * DigitsToNat(SubSeq(x, 1, Len(x) - 1)) + DigitValue(x[Len(x)])

-----------------------------------------------------------------------------
(* d2/lib/check *)

isString(v) == v.t = "string"

isArray(v) == v.t = "array"

isObject(v) == v.t = "object"

isInteger(v) == v.t = "number" /\ v.n % 2 = 0

isNumeric(v) ==
    \/ v.t = "number"
    \/ /\ v.t = "string"
       /\ Numeral(v.s) # <<>>
       /\ \A i \in DOMAIN Numeral(v.s) : Numeral(v.s)[i] \in Digits

\* Twice the number a numeric value stands for in a comparison.
ToNum(v) == IF v.t = "number" THEN v.n ELSE 2 * DigitsToNat(Numeral(v.s))

-----------------------------------------------------------------------------
(* Validation rules *)

RecognizedTypes ==
    {"INTEGER", "NUMBER", "COLLECTION", "PHONENUMBER", "EMAIL", "URL", "COLOR",
     "PASSWORD", "IDENTIFIER", "TEXT", "COMPLEX", "DATE", "REFERENCE", "BOOLEAN",
     "CONSTANT"}

\* validationSettings.type of a rule that has no type property
NoType == "(undefined)"

Types == RecognizedTypes \cup {"FOOBAR", NoType}

\* absent, 0, 2, 2.5, 5, 10
Bounds == {Undefined} \cup {Num(h) : h \in {0, 4, 5, 10, 20}}

Requireds == {Undefined, Bool(TRUE), Bool(FALSE)}

\* An argument of validate that is no object (null, a string, ...).
NotAnObject ==
    [obj |-> FALSE, type |-> NoType, min |-> Undefined, max |-> Undefined,
     required |-> Undefined]

Rules ==
    [obj : {TRUE}, type : Types, min : Bounds, max : Bounds, required : Requireds]
    \cup {NotAnObject}

-----------------------------------------------------------------------------
(* src/src/model/ModelValidation.js *)

TypeMessage == "This is not a valid type"
LargerMessage == "Value needs to be larger than or equal to"
SmallerMessage == "Value needs to be smaller than or equal to"
LongerMessage == "Value needs to be longer than or equal to"
ShorterMessage == "Value needs to be shorter than or equal to"
PhoneMessage == "Phone number can only consist of numbers and + and [space]"

\* {message: [text, bound].join(' '), value: value}
Message(text, bound, value) == [message |-> text, bound |-> bound, value |-> value]

\* result.status = false; result.messages.push(message)
Fail(result, message) ==
    [status |-> FALSE, messages |-> Append(result.messages, message)]

InitialValidations ==
    [tag \in {"PHONENUMBER"} |->
        <<[message |-> PhoneMessage, validator |-> "phoneNumber"]>>]

\* /^[0-9\+ ]+$/.test(value)
phoneNumber(value) ==
    LET str == ToStr(value)
    IN  /\ str # <<>>
        /\ \A i \in DOMAIN str : str[i] \in Digits \cup {"+", " "}

\* customValidator.validator.apply(null, [value])
ApplyValidator(validator, value) ==
    CASE validator = "phoneNumber" -> phoneNumber(value)

\* default: a type tag with no case is accepted and nothing is logged.
unrecognizedTypeAccepted(type) == [ok |-> TRUE, log |-> <<>>]

\* default: logger.log('No type validator found for', type); return false
unrecognizedType(type) ==
    [ok |-> FALSE,
     log |-> <<[logger |-> logger, text |-> "No type validator found for",
                type |-> type]>>]

typeValidation(value, type) ==
    CASE type = "INTEGER" -> [ok |-> isInteger(value), log |-> <<>>]
      [] type = "NUMBER" -> [ok |-> isNumeric(value), log |-> <<>>]
      [] type = "COLLECTION" -> [ok |-> isArray(value), log |-> <<>>]
      [] type \in {"PHONENUMBER", "EMAIL", "URL", "COLOR", "PASSWORD",
                   "IDENTIFIER", "TEXT"} ->
            [ok |-> isString(value), log |-> <<>>]
      [] type = "COMPLEX" -> [ok |-> isObject(value), log |-> <<>>]
      [] type \in {"DATE", "REFERENCE", "BOOLEAN", "CONSTANT"} ->
            [ok |-> TRUE, log |-> <<>>]
      [] OTHER -> unrecognizedType(type)

isLargerThanMin(value, minValue) ==
    IF isNumeric(minValue) THEN ToNum(value) >= ToNum(minValue) ELSE TRUE

\* value < maxValue in place of value <= maxValue
isSmallerThanMaxStrict(value, maxValue) ==
    IF isNumeric(maxValue) THEN ToNum(value) < ToNum(maxValue) ELSE TRUE

isSmallerThanMax(value, maxValue) ==
    IF isNumeric(maxValue) THEN ToNum(value) <= ToNum(maxValue) ELSE TRUE

isLargerThanLength(value, minValue) ==
    IF ~isInteger(minValue) THEN TRUE
    ELSE ~Falsy(value) /\ 2 * Length(value) >= minValue.n

isSmallerThanLength(value, maxValue) ==
    IF ~isInteger(maxValue) THEN TRUE
    ELSE ~Falsy(value) /\ 2 * Length(value) <= maxValue.n

numberMinMaxValidation(value, validationSettings) ==
    LET r0 == [status |-> TRUE, messages |-> <<>>]
        r1 == IF ~isLargerThanMin(value, validationSettings.min)
              THEN Fail(r0, Message(LargerMessage, validationSettings.min, value))
              ELSE r0
        r2 == IF ~isSmallerThanMax(value, validationSettings.max)
              THEN Fail(r1, Message(SmallerMessage, validationSettings.max, value))
              ELSE r1
    IN  IF isNumeric(value) THEN r2 ELSE r0

lengthMinMaxValidation(value, validationSettings) ==
    LET r0 == [status |-> TRUE, messages |-> <<>>]
        r1 == IF ~isLargerThanLength(value, validationSettings.min)
              THEN Fail(r0, Message(LongerMessage, validationSettings.min, value))
              ELSE r0
        r2 == IF ~isSmallerThanLength(value, validationSettings.max)
              THEN Fail(r1, Message(ShorterMessage, validationSettings.max, value))
              ELSE r1
    IN  IF isArray(value) \/ isString(value) THEN r2 ELSE r0

minMaxValidation(result, value, validationSettings) ==
    LET num == numberMinMaxValidation(value, validationSettings)
        r1 == IF ~num.status
              THEN [status |-> FALSE, messages |-> result.messages \o num.messages]
              ELSE result
        len == lengthMinMaxValidation(value, validationSettings)
    IN  IF ~len.status
        THEN [status |-> FALSE, messages |-> r1.messages \o len.messages]
        ELSE r1

\* The reduce of typeSpecificValidation: acc.status is currentValidationStatus,
\* acc.messages is result.messages, which the callback pushes onto.
RECURSIVE reduceValidators(_, _, _)
reduceValidators(validators, value, acc) ==
    IF validators = <<>> THEN acc
    ELSE LET customValidator == Head(validators)
             next == IF ~ApplyValidator(customValidator.validator, value)
                     THEN [status |-> FALSE,
                           messages |-> Append(acc.messages,
                               [message |-> customValidator.message,
                                bound |-> Undefined, value |-> value])]
                     ELSE acc
         IN  reduceValidators(Tail(validators), value, next)

typeSpecificValidation(result, value, valueType) ==
    IF valueType = NoType \/ valueType \notin DOMAIN typeSpecificValidations
    THEN result
    ELSE reduceValidators(typeSpecificValidations[valueType], value,
                          [status |-> TRUE, messages |-> result.messages])

\* validationSettings.required !== true && !value
optionalAndAbsentUnlessRequired(validationSettings, value) ==
    validationSettings.required # Bool(TRUE) /\ Falsy(value)

\* validationSettings.required === false && !value
optionalAndAbsent(validationSettings, value) ==
    validationSettings.required = Bool(FALSE) /\ Falsy(value)

\* What a call of validate does: whether it threw, the result it returned, the
\* diagnostics it logged and the checks it ran, in order.
validate(validationSettings, value) ==
    IF ~validationSettings.obj
    THEN [threw |-> TRUE, result |-> [status |-> FALSE, messages |-> <<>>],
          log |-> <<>>, checks |-> <<>>]
    ELSE IF optionalAndAbsent(validationSettings, value)
    THEN [threw |-> FALSE, result |-> [status |-> TRUE, messages |-> <<>>],
          log |-> <<>>, checks |-> <<>>]
    ELSE LET r0 == [status |-> TRUE, messages |-> <<>>]
             typed == typeValidation(value, validationSettings.type)
             r1 == IF ~typed.ok
                   THEN Fail(r0, Message(TypeMessage, Undefined, value))
                   ELSE r0
             r2 == minMaxValidation(r1, value, validationSettings)
             r3 == typeSpecificValidation(r2, value, validationSettings.type)
         IN  [threw |-> FALSE, result |-> r3, log |-> typed.log,
              checks |-> <<"typeValidation", "minMaxValidation",
                           "typeSpecificValidation">>]

-----------------------------------------------------------------------------
(* Operations *)

NoCall == [op |-> "none"]

\* validate as Validate, consuming the validators of the rule's type.
ValidateConsumingValidators(self, validationSettings, value) ==
    LET out == validate(validationSettings, value)
    IN  /\ self \in DOMAIN instances
        /\ ret' = [op |-> "validate", self |-> self, vs |-> validationSettings,
                   value |-> value, threw |-> out.threw, result |-> out.result,
                   checks |-> out.checks]
        /\ logged' = out.log
        /\ posted' = <<>>
        /\ typeSpecificValidations' =
              [tag \in DOMAIN typeSpecificValidations |->
                  IF tag = validationSettings.type /\ out.checks # <<>>
                  THEN <<>> ELSE typeSpecificValidations[tag]]
        /\ UNCHANGED <<logger, modelValidation, instances>>

\* instance.validate(validationSettings, value)
Validate(self, validationSettings, value) ==
    LET out == validate(validationSettings, value)
    IN  /\ self \in DOMAIN instances
        /\ ret' = [op |-> "validate", self |-> self, vs |-> validationSettings,
                   value |-> value, threw |-> out.threw, result |-> out.result,
                   checks |-> out.checks]
        /\ logged' = out.log
        /\ posted' = <<>>
        /\ UNCHANGED moduleVars

\* The constructor binding the logger only while none is bound yet.
ConstructKeepingLogger(providedLogger, by) ==
    /\ Len(instances) < MaxInstances
    /\ logger' = IF logger = "(undefined)" THEN providedLogger ELSE logger
    /\ instances' = Append(instances, [logger |-> providedLogger, by |-> by])
    /\ UNCHANGED typeSpecificValidations

\* new ModelValidation(providedLogger): the module-level logger is assigned.
Construct(providedLogger, by) ==
    /\ Len(instances) < MaxInstances
    /\ logger' = providedLogger
    /\ instances' = Append(instances, [logger |-> providedLogger, by |-> by])
    /\ UNCHANGED typeSpecificValidations

ProvidedLoggers == {"loggerA", "loggerB"}

\* new ModelValidation(providedLogger), called from outside the class
New(providedLogger) ==
    /\ Construct(providedLogger, "new")
    /\ ret' = [op |-> "new", result |-> Len(instances')]
    /\ logged' = <<>>
    /\ posted' = <<>>
    /\ UNCHANGED modelValidation

\* getModelValidation without the memoized instance: every call builds one.
GetModelValidationAlwaysBuilding ==
    /\ Construct("console", "getModelValidation")
    /\ modelValidation' = Len(instances')
    /\ ret' = [op |-> "getModelValidation", result |-> modelValidation']
    /\ logged' = <<>>
    /\ posted' = <<>>

\* ModelValidation.getModelValidation()
GetModelValidation ==
    /\ IF modelValidation # 0
       THEN UNCHANGED moduleVars
       ELSE /\ Construct("console", "getModelValidation")
            /\ modelValidation' = Len(instances')
    /\ ret' = [op |-> "getModelValidation", result |-> modelValidation']
    /\ logged' = <<>>
    /\ posted' = <<>>

\* A model argument: whether model is truthy, whether model.modelDefinition is,
\* and model.modelDefinition.name ("" when it is empty or absent).
Models ==
    {[model |-> FALSE, modelDefinition |-> FALSE, name |-> ""],
     [model |-> TRUE, modelDefinition |-> FALSE, name |-> ""]}
    \cup [model : {TRUE}, modelDefinition : {TRUE}, name : {"", "user"}]

RejectMessage == "model.modelDefinition.name can not be found"

\* What the promise of Api.getApi().post(...) can settle to.
HttpOutcomes ==
    {[state |-> "resolved", value |-> "httpStatus OK"],
     [state |-> "rejected", value |-> "request failed"]}

\* validateAgainstSchema posting whenever model.modelDefinition is there.
ValidateAgainstSchemaUnnamed(self, model, outcome) ==
    /\ self \in DOMAIN instances
    /\ IF ~(model.model /\ model.modelDefinition)
       THEN /\ ret' = [op |-> "validateAgainstSchema",
                       model |-> model, http |-> outcome,
                       result |-> [state |-> "rejected", value |-> RejectMessage]]
            /\ posted' = <<>>
       ELSE /\ ret' = [op |-> "validateAgainstSchema",
                       model |-> model, http |-> outcome, result |-> outcome]
            /\ posted' = <<[method |-> "POST", url |-> "schemas/" \o model.name,
                            data |-> [ownedPropertyJSON |-> model.name]]>>
    /\ logged' = <<>>
    /\ UNCHANGED moduleVars

\* instance.validateAgainstSchema(model); outcome is what the HTTP client's
\* promise settles to when a request is made.
ValidateAgainstSchema(self, model, outcome) ==
    /\ self \in DOMAIN instances
    /\ IF ~(model.model /\ model.modelDefinition /\ model.name # "")
       THEN /\ ret' = [op |-> "validateAgainstSchema",
                       model |-> model, http |-> outcome,
                       result |-> [state |-> "rejected", value |-> RejectMessage]]
            /\ posted' = <<>>
       ELSE /\ ret' = [op |-> "validateAgainstSchema",
                       model |-> model, http |-> outcome, result |-> outcome]
            /\ posted' = <<[method |-> "POST", url |-> "schemas/" \o model.name,
                            data |-> [ownedPropertyJSON |-> model.name]]>>
    /\ logged' = <<>>
    /\ UNCHANGED moduleVars

-----------------------------------------------------------------------------
(* validate applied to every rule and value *)

NoArgs == [vs |-> NotAnObject, value |-> Undefined]

InitBuilder ==
    /\ dimensions = <<>>
    /\ filters = <<>>
    /\ query = <<>>
    /\ passed = [dimensions |-> <<>>, filters |-> <<>>]

\* The module once ModelValidation.getModelValidation() has run.
InitValidate ==
    /\ logger = "console"
    /\ typeSpecificValidations = InitialValidations
    /\ modelValidation = 1
    /\ instances = <<[logger |-> "console", by |-> "getModelValidation"]>>
    /\ args \in [vs : Rules, value : Values]
    /\ ret = NoCall
    /\ logged = <<>>
    /\ posted = <<>>
    /\ probe = NoCall
    /\ InitBuilder

ValidateArgs ==
    /\ ret = NoCall
    /\ Validate(modelValidation, args.vs, args.value)
    /\ UNCHANGED <<args, probe, builderVars>>

NextValidate == ValidateArgs

SpecValidate == InitValidate /\ [][NextValidate]_vars

Validated == ret.op = "validate" /\ ~ret.threw
Ran == Validated /\ ret.checks # <<>>

-----------------------------------------------------------------------------
(* Claims about validate *)

\* How many messages of the returned result carry the given text.
CountMessages(text) ==
    Cardinality({i \in DOMAIN ret.result.messages :
                    ret.result.messages[i].message = text})

\* C1: the result validate returns has status true if and only if its messages
\* are empty, for every rule object and every value, PHONENUMBER included.
C1_StatusIffNoMessages ==
    Validated => (ret.result.status <=> ret.result.messages = <<>>)

\* C2: when the optional-and-absent short-circuit is not taken, the final
\* status is (type check passed) and (no numeric-bounds and no length-bounds
\* failure) and (every type-specific predicate of the type passed).
C2_StatusIsConjunction ==
    Ran =>
        (ret.result.status <=>
            /\ typeValidation(ret.value, ret.vs.type).ok
            /\ numberMinMaxValidation(ret.value, ret.vs).status
            /\ lengthMinMaxValidation(ret.value, ret.vs).status
            /\ ret.vs.type \in DOMAIN typeSpecificValidations =>
                 \A i \in DOMAIN typeSpecificValidations[ret.vs.type] :
                    ApplyValidator(typeSpecificValidations[ret.vs.type][i].validator,
                                   ret.value))

\* C3: with required === false and a falsy value validate returns
\* {status: true, messages: []} and logs nothing, whatever type, min and max
\* are; with required absent or true the three checks run.
C3_OptionalAbsentIsValid ==
    ret.op = "validate" /\ ret.vs.obj =>
        /\ ret.vs.required = Bool(FALSE) /\ Falsy(ret.value) =>
              /\ ~ret.threw
              /\ ret.result = [status |-> TRUE, messages |-> <<>>]
              /\ logged = <<>>
        /\ ret.vs.required \in {Undefined, Bool(TRUE)} =>
              /\ ~ret.threw
              /\ ret.checks = <<"typeValidation", "minMaxValidation",
                                "typeSpecificValidation">>

C3_Witness ==
    /\ Validated
    /\ ret.vs.required = Bool(FALSE)
    /\ ret.value = Num(0)
    /\ ret.vs.type = "FOOBAR"
    /\ ret.vs.min = Num(10)

\* One diagnostic naming the rule's type tag, and one type message.
UnrecognizedOutcome ==
    /\ ~ret.threw
    /\ ~ret.result.status
    /\ CountMessages(TypeMessage) = 1
    /\ Len(logged) = 1
    /\ logged[1].type = ret.vs.type

\* C4 as stated: for every rule whose type is not a recognized tag, validate
\* returns status false with exactly one type message and logs one diagnostic.
C4_UnrecognizedAlwaysFails ==
    ret.op = "validate" /\ ret.vs.obj /\ ret.vs.type \notin RecognizedTypes =>
        UnrecognizedOutcome

\* C4 (amended): for a rule whose type is not a recognized tag, unless required
\* is false and the value is falsy, validate does not raise, returns status
\* false with exactly one type message and logs one diagnostic naming the tag.
C4_UnrecognizedFailsUnlessOptionalAbsent ==
    /\ ret.op = "validate"
    /\ ret.vs.obj
    /\ ret.vs.type \notin RecognizedTypes
    /\ ~(ret.vs.required = Bool(FALSE) /\ Falsy(ret.value))
    => UnrecognizedOutcome

C4_Witness ==
    /\ Validated
    /\ ret.vs.type = "FOOBAR"
    /\ ret.vs.required = Bool(FALSE)
    /\ ret.value = Str(<<"a">>)
    /\ ret.vs.min = Num(4)
    /\ Len(ret.result.messages) = 2

\* C5: for a string or array value, the length-bounds check produces a
\* length-min message iff min is an integer and value.length < min, and a
\* length-max message iff max is an integer and value.length > max.
C5_LengthBounds ==
    Ran /\ (isString(ret.value) \/ isArray(ret.value)) =>
        /\ CountMessages(LongerMessage) > 0 <=>
              isInteger(ret.vs.min) /\ 2 * Length(ret.value) < ret.vs.min.n
        /\ CountMessages(ShorterMessage) > 0 <=>
              isInteger(ret.vs.max) /\ 2 * Length(ret.value) > ret.vs.max.n

\* C6: for a numeric value the numeric-bounds check appends exactly one
\* 'larger than or equal to' message iff min is numeric and value < min, and
\* exactly one 'smaller than or equal to' message iff max is numeric and
\* value > max; for a non-numeric value it appends neither.  For type NUMBER,
\* min 5, max 10: 12 gives status false with one bounds message, 7 status true.
C6_NumericBounds ==
    Ran =>
        /\ CountMessages(LargerMessage) =
              IF /\ isNumeric(ret.value)
                 /\ isNumeric(ret.vs.min)
                 /\ ToNum(ret.value) < ToNum(ret.vs.min)
              THEN 1 ELSE 0
        /\ CountMessages(SmallerMessage) =
              IF /\ isNumeric(ret.value)
                 /\ isNumeric(ret.vs.max)
                 /\ ToNum(ret.value) > ToNum(ret.vs.max)
              THEN 1 ELSE 0
        /\ ret.vs.type = "NUMBER" /\ ret.vs.min = Num(10) /\ ret.vs.max = Num(20) =>
              /\ ret.value = Num(24) =>
                    /\ ~ret.result.status
                    /\ Len(ret.result.messages) = 1
                    /\ ret.result.messages[1].message = SmallerMessage
              /\ ret.value = Num(14) => ret.result.status

C6_Witness ==
    /\ Ran
    /\ ret.vs.type = "NUMBER"
    /\ ret.vs.min = Num(10)
    /\ ret.vs.max = Num(20)
    /\ ret.value = Num(24)
    /\ CountMessages(SmallerMessage) = 1

-----------------------------------------------------------------------------
(* The ModelValidation module: constructions, the singleton accessor, validate
   and validateAgainstSchema in any order *)

\* The module as loaded: no logger bound, no singleton, the registry filled.
Init ==
    /\ logger = "(undefined)"
    /\ typeSpecificValidations = InitialValidations
    /\ modelValidation = 0
    /\ instances = <<>>
    /\ args = NoArgs
    /\ ret = NoCall
    /\ logged = <<>>
    /\ posted = <<>>
    /\ probe = NoCall
    /\ InitBuilder

\* The rules and values validate is called with between other operations.
CallRules ==
    [obj : {TRUE}, type : {"PHONENUMBER", "FOOBAR"}, min : {Undefined},
     max : {Num(0)}, required : {Undefined, Bool(FALSE)}]

CallValues == {Str(<<>>), Str(<<"a">>), Num(2)}

\* The call just made, kept for comparison with later calls.
Kept == [op |-> "validate", vs |-> ret'.vs, value |-> ret'.value,
         result |-> ret'.result, others |-> FALSE]

NewCall ==
    \E providedLogger \in ProvidedLoggers :
        /\ New(providedLogger)
        /\ UNCHANGED <<args, probe, builderVars>>

GetModelValidationCall ==
    /\ GetModelValidation
    /\ UNCHANGED <<args, probe, builderVars>>

ValidateCall ==
    \E self \in DOMAIN instances, validationSettings \in CallRules,
       value \in CallValues :
        /\ Validate(self, validationSettings, value)
        /\ \/ probe' = Kept
           \/ /\ probe.op = "validate"
              /\ probe' = IF probe.vs = validationSettings /\ probe.value = value
                          THEN probe
                          ELSE [probe EXCEPT !.others = TRUE]
        /\ UNCHANGED <<args, builderVars>>

ValidateAgainstSchemaCall ==
    \E self \in DOMAIN instances, model \in Models, outcome \in HttpOutcomes :
        /\ ValidateAgainstSchema(self, model, outcome)
        /\ UNCHANGED <<args, probe, builderVars>>

Next ==
    \/ NewCall
    \/ GetModelValidationCall
    \/ ValidateCall
    \/ ValidateAgainstSchemaCall

Spec == Init /\ [][Next]_vars

-----------------------------------------------------------------------------
(* Claims about the module *)

\* C7: validateAgainstSchema called with a model that is missing, has no
\* modelDefinition or has an empty modelDefinition.name returns a promise
\* rejected with 'model.modelDefinition.name can not be found' and issues no
\* HTTP request; otherwise it issues exactly one POST to schemas/<name> and
\* returns the HTTP client's promise as it is.
C7_SchemaValidationPassthrough ==
    ret.op = "validateAgainstSchema" =>
        IF ~ret.model.model \/ ~ret.model.modelDefinition \/ ret.model.name = ""
        THEN /\ ret.result = [state |-> "rejected", value |-> RejectMessage]
             /\ posted = <<>>
        ELSE /\ Len(posted) = 1
             /\ posted[1].method = "POST"
             /\ posted[1].url = "schemas/" \o ret.model.name
             /\ ret.result = ret.http

C7_Witness ==
    /\ ret.op = "validateAgainstSchema"
    /\ ret.model = [model |-> TRUE, modelDefinition |-> TRUE, name |-> ""]
    /\ ret.http.state = "resolved"
    /\ ret.result.state = "rejected"

\* C8: in any sequence of getModelValidation() calls and explicit
\* constructions, every getModelValidation() call returns the one instance the
\* first such call built, and no explicitly constructed instance is that
\* singleton or replaces it.
C8_Singleton ==
    /\ Cardinality({i \in DOMAIN instances :
                       instances[i].by = "getModelValidation"}) <= 1
    /\ modelValidation # 0 =>
          /\ modelValidation \in DOMAIN instances
          /\ instances[modelValidation].by = "getModelValidation"
    /\ ret.op = "getModelValidation" =>
          /\ ret.result = modelValidation
          /\ ret.result \in DOMAIN instances
          /\ instances[ret.result].by = "getModelValidation"
    /\ ret.op = "new" => ret.result # modelValidation

C8_Witness ==
    /\ ret.op = "getModelValidation"
    /\ ret.result = 1
    /\ Len(instances) = 2
    /\ instances[2].by = "new"

\* C9: a validate call with the rule and value of an earlier validate call
\* returns a structurally equal result, whatever validate calls came in
\* between, and a validate call changes neither the validator registry, the
\* logger, the singleton nor the instances.
C9_ValidateIdempotent ==
    [][ret'.op = "validate" =>
          /\ UNCHANGED moduleVars
          /\ (/\ probe.op = "validate"
              /\ probe.vs = ret'.vs
              /\ probe.value = ret'.value) => ret'.result = probe.result]_vars

C9_Witness ==
    /\ ret.op = "validate"
    /\ probe.op = "validate"
    /\ probe.others
    /\ probe.vs = ret.vs
    /\ probe.value = ret.value
    /\ ret.vs.type = "PHONENUMBER"
    /\ ret.value = Str(<<"a">>)
    /\ ret.result = probe.result
    /\ CountMessages(PhoneMessage) = 1

-----------------------------------------------------------------------------
(* The analytics query builder (AnalyticsAggregate) *)

Items == {"dx:fbfJHSPpUQD", "pe:2016Q1"}

\* An argument of addDimensions or addFilters: not given, or an array of items.
NoItems == [given |-> FALSE, items |-> <<>>]
ItemArguments ==
    {NoItems} \cup [given : {TRUE}, items : SeqsUpTo(Items, 2)]

ParameterKeys == {"startDate", "skipData"}
ParameterValues == {"2016-01-01", "true"}
Mappings == UNION {[keys -> ParameterValues] : keys \in SUBSET ParameterKeys}

\* An argument of addParameters or of a terminal operation.
NoParameters == [given |-> FALSE, parameters |-> <<>>]
ParameterArguments ==
    {NoParameters} \cup [given : {TRUE}, parameters : Mappings]

\* Object.assign({}, target, source): source overrides same-named keys.
Merge(target, source) ==
    [key \in DOMAIN target \cup DOMAIN source |->
        IF key \in DOMAIN source THEN source[key] ELSE target[key]]

\* addDimensions putting the new items in front of the stored ones.
addDimensionsInFront(stored, argument) ==
    IF ~argument.given THEN stored ELSE argument.items \o stored

\* this.dimensions after addDimensions(argument)
addDimensions(stored, argument) ==
    IF ~argument.given THEN stored ELSE stored \o argument.items

\* this.filters after addFilters(argument)
addFilters(stored, argument) ==
    IF ~argument.given THEN stored ELSE stored \o argument.items

\* this.query after addParameters(argument)
addParameters(stored, argument) ==
    IF ~argument.given THEN stored ELSE Merge(stored, argument.parameters)

AddDimensions(argument) ==
    /\ Len(dimensions) + Len(argument.items) <= MaxItems
    /\ dimensions' = addDimensions(dimensions, argument)
    /\ passed' = [passed EXCEPT !.dimensions = @ \o argument.items]
    /\ ret' = [op |-> "addDimensions", argument |-> argument]
    /\ posted' = <<>>
    /\ UNCHANGED <<filters, query>>

AddFilters(argument) ==
    /\ Len(filters) + Len(argument.items) <= MaxItems
    /\ filters' = addFilters(filters, argument)
    /\ passed' = [passed EXCEPT !.filters = @ \o argument.items]
    /\ ret' = [op |-> "addFilters", argument |-> argument]
    /\ posted' = <<>>
    /\ UNCHANGED <<dimensions, query>>

AddParameters(argument) ==
    /\ query' = addParameters(query, argument)
    /\ ret' = [op |-> "addParameters", argument |-> argument]
    /\ posted' = <<>>
    /\ UNCHANGED <<dimensions, filters, passed>>

\* getRawData('json', parameters): the parameters are merged into this.query
\* and one GET carries the accumulated dimensions, filters and query.
GetRawData(argument) ==
    /\ query' = addParameters(query, argument)
    /\ ret' = [op |-> "getRawData", argument |-> argument]
    /\ posted' = <<[method |-> "GET", url |-> "analytics/rawData.json",
                    dimensions |-> dimensions, filters |-> filters,
                    query |-> query']>>
    /\ UNCHANGED <<dimensions, filters, passed>>

\* new AnalyticsAggregate(api)
InitQuery ==
    /\ logger = "(undefined)"
    /\ typeSpecificValidations = InitialValidations
    /\ modelValidation = 0
    /\ instances = <<>>
    /\ args = NoArgs
    /\ ret = NoCall
    /\ logged = <<>>
    /\ posted = <<>>
    /\ probe = NoCall
    /\ InitBuilder

AddDimensionsCall ==
    \E argument \in ItemArguments :
        /\ AddDimensions(argument)
        /\ UNCHANGED <<moduleVars, args, logged, probe>>

AddFiltersCall ==
    \E argument \in ItemArguments :
        /\ AddFilters(argument)
        /\ UNCHANGED <<moduleVars, args, logged, probe>>

AddParametersCall ==
    \E argument \in ParameterArguments :
        /\ AddParameters(argument)
        /\ UNCHANGED <<moduleVars, args, logged, probe>>

GetRawDataCall ==
    \E argument \in ParameterArguments :
        /\ GetRawData(argument)
        /\ UNCHANGED <<moduleVars, args, logged, probe>>

NextQuery ==
    \/ AddDimensionsCall
    \/ AddFiltersCall
    \/ AddParametersCall
    \/ GetRawDataCall

SpecQuery == InitQuery /\ [][NextQuery]_vars

AddOperations == {"addDimensions", "addFilters", "addParameters"}

\* C10: addDimensions(), addFilters() and addParameters() without an argument
\* leave dimensions, filters and query unchanged; with an argument each only
\* appends to its own sequence (or merges into query) and leaves the other two
\* unchanged; dimensions and filters are always the passed items in call order.
C10_AddOperationsFrame ==
    [][/\ ret'.op \in AddOperations /\ ~ret'.argument.given =>
             UNCHANGED <<dimensions, filters, query>>
       /\ ret'.op = "addDimensions" /\ ret'.argument.given =>
             /\ dimensions' = dimensions \o ret'.argument.items
             /\ UNCHANGED <<filters, query>>
       /\ ret'.op = "addFilters" /\ ret'.argument.given =>
             /\ filters' = filters \o ret'.argument.items
             /\ UNCHANGED <<dimensions, query>>
       /\ ret'.op = "addParameters" /\ ret'.argument.given =>
             /\ \A key \in DOMAIN query' :
                   query'[key] = IF key \in DOMAIN ret'.argument.parameters
                                 THEN ret'.argument.parameters[key]
                                 ELSE query[key]
             /\ DOMAIN query' = DOMAIN query \cup DOMAIN ret'.argument.parameters
             /\ UNCHANGED <<dimensions, filters>>
       /\ dimensions' = passed'.dimensions
       /\ filters' = passed'.filters]_vars

C10_Witness ==
    /\ ret.op = "addFilters"
    /\ ~ret.argument.given
    /\ Len(dimensions) = 3
    /\ dimensions[1] # dimensions[2]
    /\ Len(filters) = 2
    /\ DOMAIN query = ParameterKeys

-----------------------------------------------------------------------------
(* Claims about the shared logger *)

\* C11: the logger is one module-level variable shared by all instances: the
\* diagnostic for an unrecognized type tag emitted by validate on any
\* instance, the singleton included, goes to the logger passed to the most
\* recently executed constructor, not to the logger of the instance called.
C11_DiagnosticToLatestLogger ==
    ret.op = "validate" /\ ~ret.threw /\ ret.checks # <<>>
        /\ ret.vs.type \notin RecognizedTypes =>
            /\ Len(logged) = 1
            /\ logged[1].logger = instances[Len(instances)].logger
            /\ logged[1].logger = logger

C11_Witness ==
    /\ ret.op = "validate"
    /\ ret.self = modelValidation
    /\ instances[ret.self].logger = "console"
    /\ ret.vs.type = "FOOBAR"
    /\ Len(logged) = 1
    /\ logged[1].logger = "loggerA"
    /\ logged[1].logger # instances[ret.self].logger

====
